---- MODULE Spec2Model ----
(***************************************************************************)
(* Model of pytorch-unet-segmentation: the paired image / label-map       *)
(* pipeline of data.py (DeepFashion2Dataset, DataAugmentation,            *)
(* PairRandomCrop, _resize_image, _resize_mask) and the class-averaged    *)
(* IoU of metrics.py (iou).                                               *)
(*                                                                         *)
(* Arrays (numpy) are records [h, w, px] with px indexed by <<row, col>>;  *)
(* PIL images are records [w, h, px] with px indexed by <<x, y>>.          *)
(* Images are single-channel.  Probabilities are in percent.               *)
(***************************************************************************)
EXTENDS Integers, Sequences, FiniteSets, TLC

VARIABLES
    rz,        \* SpecResize: the _resize_mask call under study
    met,       \* SpecIoU: the iou call under study
    pc,        \* dataset object: "new", "ready" or "ValueError"
    ds,        \* dataset object: __init__'s arguments and the fields it sets
    io,        \* sequence of file-system operations performed so far
    pyRandom,  \* state of Python's global `random` generator
    torchRng,  \* state of torch's default generator
    last,      \* observation of the last __getitem__ / augment call
    ref        \* an earlier call kept for comparison with the last one

vars == <<rz, met, pc, ds, io, pyRandom, torchRng, last, ref>>

(***************************************************************************)
(* Bounds                                                                  *)
(***************************************************************************)
MaxH == 2          \* rows of a mask given to _resize_mask
MaxW == 2          \* columns of a mask given to _resize_mask
MaxSize == 3       \* largest target size of a resize
NPix == 3          \* pixels of a label map given to iou
NumClasses == 3    \* class-score channels of y_pred
MaxScore == 1      \* scores of y_pred range over 0..MaxScore
PyMod == 4         \* number of states of the Python generator
TorchMod == 5      \* number of states of the torch generator

\* label values a decoded mask may hold (8-bit and 16-bit sources)
Labels == {0, 1, 2, 255, 256, 300}

Min(a, b) == IF a < b THEN a ELSE b

Grid(h, w) == (0 .. h - 1) \X (0 .. w - 1)

\* all h x w arrays, 1 <= h <= H, 1 <= w <= W, with values in V
Arrays(H, W, V) ==
    UNION { [h : {hh}, w : {ww}, px : [Grid(hh, ww) -> V]] :
            hh \in 1 .. H, ww \in 1 .. W }

\* set(a): the values occurring in an array or image
Values(a) == { a.px[p] : p \in DOMAIN a.px }

NoArray == [h |-> 0, w |-> 0, px |-> [p \in {} |-> 0]]

(***************************************************************************)
(* Resizer: data.py _resize_image, _resize_mask                            *)
(***************************************************************************)
\* ndarray.astype('uint8') of a float64 value.  A value outside 0..255 has
\* no uint8 representation and the C cast is undefined: builds either wrap
\* modulo 256 or saturate.
CastModes == {"wrap", "saturate"}

astype_uint8(v, mode) ==
    IF v \in 0 .. 255 THEN v
    ELSE IF mode = "wrap" THEN v % 256
    ELSE IF v < 0 THEN 0 ELSE 255

\* Resize that blends the two nearest source rows (order=1 instead of 0).
resize_order1(a, s) ==
    [h |-> s, w |-> s,
     px |-> [p \in Grid(s, s) |->
               LET r0 == ((2 * p[1] + 1) * a.h) \div (2 * s)
                   r1 == Min(r0 + 1, a.h - 1)
                   c  == ((2 * p[2] + 1) * a.w) \div (2 * s)
               IN  (a.px[<<r0, c>>] + a.px[<<r1, c>>]) \div 2]]

\* skimage.transform.resize(a, (s, s), order=0, anti_aliasing=False,
\* preserve_range=True): output pixel (i, j) copies the source pixel
\* nearest to the centre of the output cell, floor((i + 1/2) * h / s).
resize_order0(a, s) ==
    [h |-> s, w |-> s,
     px |-> [p \in Grid(s, s) |->
               a.px[<< ((2 * p[1] + 1) * a.h) \div (2 * s),
                       ((2 * p[2] + 1) * a.w) \div (2 * s) >>]]]

ArrayAsType(a, mode) ==
    [a EXCEPT !.px = [p \in DOMAIN a.px |-> astype_uint8(a.px[p], mode)]]

_resize_mask(mask, new_size, mode) ==
    ArrayAsType(resize_order0(mask, new_size), mode)

_resize_image(img, new_size, mode) ==
    ArrayAsType(resize_order0(img, new_size), mode)

ResizeIdle == [mask |-> NoArray, size |-> 0, out |-> NoArray, done |-> FALSE]

ResizeInit ==
    \E m \in Arrays(MaxH, MaxW, Labels), s \in 1 .. MaxSize :
        rz = [mask |-> m, size |-> s, out |-> NoArray, done |-> FALSE]

ResizeCall ==
    /\ ~rz.done
    /\ \E mode \in CastModes :
         rz' = [rz EXCEPT !.out = _resize_mask(rz.mask, rz.size, mode),
                          !.done = TRUE]
    /\ UNCHANGED <<met, pc, ds, io, pyRandom, torchRng, last, ref>>

(***************************************************************************)
(* IoUMetric: metrics.py iou                                               *)
(***************************************************************************)
Pixels == 1 .. NPix
Classes == 0 .. NumClasses - 1
Scores == 0 .. MaxScore

\* floats are kept exact: nan, or the rational n / d with d > 0
NaN == [kind |-> "nan", n |-> 0, d |-> 0]
Num(n, d) == [kind |-> "num", n |-> n, d |-> d]
Raised == [kind |-> "raise", n |-> 0, d |-> 0]

\* tensor / tensor in floating point: 0/0 is nan, never an exception
FloatDiv(n, d) == IF d = 0 THEN NaN ELSE Num(n, d)

\* torch.argmax over the class channel: index of the first maximal score
argmax(sc) ==
    CHOOSE c \in DOMAIN sc :
        /\ \A k \in DOMAIN sc : sc[k] <= sc[c]
        /\ \A k \in DOMAIN sc : k < c => sc[k] < sc[c]

predicted_image(y_pred) == [p \in DOMAIN y_pred |-> argmax(y_pred[p])]

RECURSIVE SortedSeq(_)
SortedSeq(S) ==
    IF S = {} THEN <<>>
    ELSE LET m == CHOOSE x \in S : \A y \in S : x <= y
         IN  <<m>> \o SortedSeq(S \ {m})

all_classes(y_true) == SortedSeq(Classes)

\* y_true.unique(): the sorted distinct values of the ground truth
true_classes(y_true) == SortedSeq({ y_true[p] : p \in DOMAIN y_true })

Intersection(y_true, pred, c) ==
    Cardinality({ p \in DOMAIN y_true : pred[p] = c /\ y_true[p] = c })

Union(y_true, pred, c) ==
    Cardinality({ p \in DOMAIN y_true : pred[p] = c \/ y_true[p] = c })

_class_iou_over_pixels(y_true, pred, c) ==
    FloatDiv(Intersection(y_true, pred, c), Cardinality(DOMAIN y_true))

_class_iou(y_true, pred, c) ==
    FloatDiv(Intersection(y_true, pred, c), Union(y_true, pred, c))

RECURSIVE SumSeq(_)
SumSeq(xs) ==
    IF Len(xs) = 0 THEN Num(0, 1)
    ELSE LET x == Head(xs)
             r == SumSeq(Tail(xs))
         IN  IF x.kind # "num" \/ r.kind # "num" THEN NaN
             ELSE Num(x.n * r.d + r.n * x.d, x.d * r.d)

np_mean_raising(xs) ==
    IF Len(xs) = 0 THEN Raised
    ELSE LET s == SumSeq(xs)
         IN  IF s.kind # "num" THEN NaN ELSE Num(s.n, s.d * Len(xs))

\* np.mean of a list: the empty list gives nan (with a RuntimeWarning)
np_mean(xs) ==
    IF Len(xs) = 0 THEN NaN
    ELSE LET s == SumSeq(xs)
         IN  IF s.kind # "num" THEN NaN ELSE Num(s.n, s.d * Len(xs))

\* the classes iou scores: [c for c in true_classes if c != 0]
scored_classes(y_true) == SelectSeq(true_classes(y_true), LAMBDA c : c # 0)

iou(y_true, y_pred) ==
    LET pred == predicted_image(y_pred)
        cs == scored_classes(y_true)
        per == [k \in 1 .. Len(cs) |-> _class_iou(y_true, pred, cs[k])]
    IN  [scored |-> cs,
         inter |-> [k \in 1 .. Len(cs) |-> Intersection(y_true, pred, cs[k])],
         union |-> [k \in 1 .. Len(cs) |-> Union(y_true, pred, cs[k])],
         per |-> per,
         value |-> np_mean(per)]

NoIou == [scored |-> <<>>, inter |-> <<>>, union |-> <<>>, per |-> <<>>,
          value |-> NaN]

MetricIdle == [y_true |-> <<>>, y_pred |-> <<>>, res |-> NoIou,
               called |-> FALSE]

MetricInit ==
    \E t \in [Pixels -> Classes] :
        met = [y_true |-> t, y_pred |-> <<>>, res |-> NoIou, called |-> FALSE]

IouCall ==
    /\ ~met.called
    /\ \E y \in [Pixels -> [Classes -> Scores]] :
         met' = [met EXCEPT !.y_pred = y, !.res = iou(met.y_true, y),
                            !.called = TRUE]
    /\ UNCHANGED <<rz, pc, ds, io, pyRandom, torchRng, last, ref>>

(***************************************************************************)
(* Random sources: Python's global `random` and torch's default generator  *)
(***************************************************************************)
\* random.random() in percent, and the generator state after the draw
py_random_value(py) == (py * 100) \div PyMod

py_next(py) == (py + 1) % PyMod

\* torch.randint(0, n, size=(1,)).item() and the state after k draws.  The
\* output is taken from the upper part of the state, so that two draws in
\* a row are not tied to each other.
torch_randint(tg, n) == (tg \div 2) % n

torch_next(tg, k) == (tg + k) % TorchMod

(***************************************************************************)
(* PIL images and torchvision.transforms.functional                        *)
(***************************************************************************)
PilGrid(w, h) == (0 .. w - 1) \X (0 .. h - 1)

NoImage == [w |-> 0, h |-> 0, px |-> [p \in {} |-> 0]]

\* TF.to_pil_image of a uint8 H x W array: pixel (x, y) is array[y][x]
to_pil_image(a) ==
    [w |-> a.w, h |-> a.h,
     px |-> [p \in PilGrid(a.w, a.h) |-> a.px[<<p[2], p[1]>>]]]

np_array_transposed(img) ==
    [h |-> img.w, w |-> img.h,
     px |-> [p \in Grid(img.w, img.h) |-> img.px[<<p[1], p[2]>>]]]

\* np.array(image): array[row][col] is pixel (col, row)
np_array(img) ==
    [h |-> img.h, w |-> img.w,
     px |-> [p \in Grid(img.h, img.w) |-> img.px[<<p[2], p[1]>>]]]

\* TF.crop(img, top, left, height, width) = img.crop((left, top,
\* left + width, top + height)); PIL fills what lies outside img with 0
crop(img, top, left, height, width) ==
    [w |-> width, h |-> height,
     px |-> [p \in PilGrid(width, height) |->
               IF left + p[1] < img.w /\ top + p[2] < img.h
               THEN img.px[<<left + p[1], top + p[2]>>]
               ELSE 0]]

\* TF.hflip(img): mirror the columns
hflip(img) ==
    [img EXCEPT !.px = [p \in DOMAIN img.px |->
                          img.px[<<img.w - 1 - p[1], p[2]>>]]]

\* transforms.ColorJitter(...)(image): get_params draws the order of the
\* four adjustments and one factor for each (5 draws of torch's generator).
\* On a single-channel image saturation and hue leave the pixel unchanged;
\* the brightness factor scales it and the result is clamped to 0..255.
JitterDraws == 5

BrightnessFactor(tg, rate) == 100 - rate + rate * (torch_next(tg, 1) % 3)

ColorJitter(image, rate, tg) ==
    [image |-> [image EXCEPT !.px = [p \in DOMAIN image.px |->
                   Min(255, (image.px[p] * BrightnessFactor(tg, rate)) \div 100)]],
     tg |-> torch_next(tg, JitterDraws)]

NoParams == [top |-> 0, left |-> 0, height |-> 0, width |-> 0]

\* get_params that keeps the parameters of the previous call of the same size
get_params_cached(img, th, tw, tg) ==
    IF /\ last.kind # "none" /\ last.t.a.status = "returned"
       /\ last.t.a.p.height = th /\ last.t.a.p.width = tw
       /\ img.h >= th /\ img.w >= tw
    THEN [ok |-> TRUE, p |-> last.t.a.p, tg |-> tg]
    ELSE IF img.h < th \/ img.w < tw
    THEN [ok |-> FALSE, p |-> NoParams, tg |-> tg]
    ELSE IF img.w = tw /\ img.h = th
    THEN [ok |-> TRUE,
          p |-> [top |-> 0, left |-> 0, height |-> img.h, width |-> img.w],
          tg |-> tg]
    ELSE [ok |-> TRUE,
          p |-> [top |-> torch_randint(tg, img.h - th + 1),
                 left |-> torch_randint(torch_next(tg, 1), img.w - tw + 1),
                 height |-> th, width |-> tw],
          tg |-> torch_next(tg, 2)]

\* transforms.RandomCrop.get_params(img, (th, tw)): ValueError when the
\* crop does not fit; no draw when the sizes are equal; else two randints.
get_params(img, th, tw, tg) ==
    IF img.h < th \/ img.w < tw
    THEN [ok |-> FALSE, p |-> NoParams, tg |-> tg]
    ELSE IF img.w = tw /\ img.h = th
    THEN [ok |-> TRUE,
          p |-> [top |-> 0, left |-> 0, height |-> img.h, width |-> img.w],
          tg |-> tg]
    ELSE [ok |-> TRUE,
          p |-> [top |-> torch_randint(tg, img.h - th + 1),
                 left |-> torch_randint(torch_next(tg, 1), img.w - tw + 1),
                 height |-> th, width |-> tw],
          tg |-> torch_next(tg, 2)]

\* PairRandomCrop with a second, independent draw for the mask
PairRandomCropUnsynced(image, mask, image_size, tg) ==
    LET gp == get_params(image, image_size, image_size, tg)
        gm == get_params(mask, image_size, image_size, gp.tg)
    IN  IF ~gp.ok \/ ~gm.ok
        THEN [ok |-> FALSE, draws |-> 0, p |-> NoParams, pm |-> NoParams,
              image |-> NoImage, mask |-> NoImage, tg |-> gp.tg]
        ELSE [ok |-> TRUE, draws |-> 2, p |-> gp.p, pm |-> gm.p,
              image |-> crop(image, gp.p.top, gp.p.left,
                             gp.p.height, gp.p.width),
              mask |-> crop(mask, gm.p.top, gm.p.left,
                            gm.p.height, gm.p.width),
              tg |-> gm.tg]

\* PairRandomCrop.__call__: one get_params on the image, the same
\* (start_y, start_x, new_height, new_width) applied to image and mask.
\* p is what the image is cropped with, pm what the mask is cropped with.
PairRandomCrop(image, mask, image_size, tg) ==
    LET gp == get_params(image, image_size, image_size, tg)
    IN  IF ~gp.ok
        THEN [ok |-> FALSE, draws |-> 0, p |-> NoParams, pm |-> NoParams,
              image |-> NoImage, mask |-> NoImage, tg |-> gp.tg]
        ELSE [ok |-> TRUE, draws |-> 1, p |-> gp.p, pm |-> gp.p,
              image |-> crop(image, gp.p.top, gp.p.left,
                             gp.p.height, gp.p.width),
              mask |-> crop(mask, gp.p.top, gp.p.left,
                            gp.p.height, gp.p.width),
              tg |-> gp.tg]

\* flip step that mirrors the image only
flip_step_image_only(image, mask, u, chance) ==
    IF u > chance
    THEN [flipped |-> TRUE, image |-> hflip(image), mask |-> mask]
    ELSE [flipped |-> FALSE, image |-> image, mask |-> mask]

\* if random.random() > self.h_flipping_chance:
\*     image, mask = TF.hflip(image), TF.hflip(mask)
flip_step(image, mask, u, chance) ==
    IF u > chance
    THEN [flipped |-> TRUE, image |-> hflip(image), mask |-> hflip(mask)]
    ELSE [flipped |-> FALSE, image |-> image, mask |-> mask]

(***************************************************************************)
(* DataAugmentation                                                        *)
(***************************************************************************)
BrightnessRate == 10   \* brightness_rate = 0.10

NoAugmentation ==
    [present |-> FALSE, central_crop_size |-> 0, h_flipping_chance |-> 0]

DataAugmentation(size, chance) ==
    [present |-> TRUE, central_crop_size |-> size,
     h_flipping_chance |-> chance]

\* DataAugmentation.augment(image, mask) run from generator states py, tg.
\* The result keeps every intermediate value of the call.
augment(cfg, image, mask, py, tg) ==
    LET jit == ColorJitter(image, BrightnessRate, tg)
        rc == PairRandomCrop(jit.image, mask, cfg.central_crop_size, jit.tg)
        u == py_random_value(py)
        fl == flip_step(rc.image, rc.mask, u, cfg.h_flipping_chance)
    IN  IF ~rc.ok
        THEN [status |-> "ValueError", jittered |-> jit.image,
              draws |-> 0, p |-> NoParams, pm |-> NoParams,
              croppedImage |-> NoImage, croppedMask |-> NoImage,
              u |-> 0, flipped |-> FALSE,
              image |-> NoImage, mask |-> NoImage,
              py |-> py, tg |-> rc.tg]
        ELSE [status |-> "returned", jittered |-> jit.image,
              draws |-> rc.draws, p |-> rc.p, pm |-> rc.pm,
              croppedImage |-> rc.image, croppedMask |-> rc.mask,
              u |-> u, flipped |-> fl.flipped,
              image |-> fl.image, mask |-> fl.mask,
              py |-> py_next(py), tg |-> rc.tg]

(***************************************************************************)
(* The data directory read by DeepFashion2Dataset                          *)
(***************************************************************************)
MaxFetches == 2    \* __getitem__ calls on one dataset object
MaxCrop == 3       \* largest central_crop_size configured

valid_subsets == {"train", "validation", "test"}
SubsetTags == valid_subsets \cup {"val"}
Chances == {0, 50, 100}

\* rows of data.json
Manifest ==
    << [image_path |-> "a.jpg", mask_path |-> "a.png", set |-> "train"],
       [image_path |-> "b.jpg", mask_path |-> "b.png", set |-> "train"],
       [image_path |-> "c.jpg", mask_path |-> "c.png", set |-> "train"],
       [image_path |-> "d.jpg", mask_path |-> "d.png", set |-> "validation"],
       [image_path |-> "e.jpg", mask_path |-> "e.png", set |-> "test"],
       [image_path |-> "f.jpg", mask_path |-> "f.png", set |-> "test"] >>

\* os.path.isfile: c.png and e.jpg are missing
isfile(path) == path \notin {"c.png", "e.jpg"}

FileShape ==
    [p \in {"a.jpg", "a.png", "c.jpg"} |-> <<3, 3>>] @@
    [p \in {"b.jpg"} |-> <<2, 3>>] @@ [p \in {"b.png"} |-> <<3, 2>>] @@
    [p \in {"d.jpg", "d.png"} |-> <<2, 2>>] @@
    [p \in {"e.png", "f.jpg", "f.png"} |-> <<1, 2>>]

IsMaskPath(path) == path \in {"a.png", "b.png", "d.png", "e.png", "f.png"}

\* skimage.io.imread: 8-bit pixels; masks hold the labels 0..2
imread(path) ==
    LET hw == FileShape[path]
    IN  [h |-> hw[1], w |-> hw[2],
         px |-> [p \in Grid(hw[1], hw[2]) |->
                   IF IsMaskPath(path)
                   THEN (p[1] + 2 * p[2] + 1) % 3
                   ELSE 30 * (p[1] * hw[2] + p[2]) + 10]]

Op(op, path) == [op |-> op, path |-> path]

(***************************************************************************)
(* DeepFashion2Dataset                                                     *)
(***************************************************************************)
RowsOf(subset) == SelectSeq(Manifest, LAMBDA row : row.set = subset)

\* isfile(img) and isfile(mask): the mask is looked at only for an
\* existing image
RECURSIVE PairChecks(_)
PairChecks(rows) ==
    IF Len(rows) = 0 THEN <<>>
    ELSE LET r == Head(rows)
         IN  (IF isfile(r.image_path)
              THEN <<Op("isfile", r.image_path), Op("isfile", r.mask_path)>>
              ELSE <<Op("isfile", r.image_path)>>)
             \o PairChecks(Tail(rows))

PairsOf(subset) ==
    SelectSeq(RowsOf(subset),
              LAMBDA row : isfile(row.image_path) /\ isfile(row.mask_path))

NoDataset ==
    [image_resize |-> 0, subset |-> "", aug |-> NoAugmentation,
     pairs |-> <<>>, fetched |-> 0]

\* __init__ that loads the manifest before it validates the subset
init_open_first(image_resize, subset, aug, manifest_present) ==
    IF ~manifest_present
    THEN [pc |-> "FileNotFoundError", io |-> <<Op("open", "data.json")>>,
          ds |-> [NoDataset EXCEPT !.image_resize = image_resize,
                                   !.subset = subset, !.aug = aug]]
    ELSE IF subset \notin valid_subsets
    THEN [pc |-> "ValueError", io |-> <<Op("open", "data.json")>>,
          ds |-> [NoDataset EXCEPT !.image_resize = image_resize,
                                   !.subset = subset]]
    ELSE [pc |-> "ready",
          io |-> <<Op("open", "data.json")>> \o PairChecks(RowsOf(subset)),
          ds |-> [image_resize |-> image_resize, subset |-> subset,
                  aug |-> aug, pairs |-> PairsOf(subset), fetched |-> 0]]

\* DeepFashion2Dataset.__init__: the outcome, the file operations made
\* and the fields set
init(image_resize, subset, aug, manifest_present) ==
    IF subset \notin valid_subsets
    THEN [pc |-> "ValueError", io |-> <<>>,
          ds |-> [NoDataset EXCEPT !.image_resize = image_resize,
                                   !.subset = subset]]
    ELSE IF ~manifest_present
    THEN [pc |-> "FileNotFoundError", io |-> <<Op("open", "data.json")>>,
          ds |-> [NoDataset EXCEPT !.image_resize = image_resize,
                                   !.subset = subset, !.aug = aug]]
    ELSE [pc |-> "ready",
          io |-> <<Op("open", "data.json")>> \o PairChecks(RowsOf(subset)),
          ds |-> [image_resize |-> image_resize, subset |-> subset,
                  aug |-> aug, pairs |-> PairsOf(subset), fetched |-> 0]]

\* transforms.ToTensor() then Normalize(mean=(0,), std=(1,)): pixel v
\* becomes (v / 255 - 0) / 1, laid out channel x row x column
ToTensorNormalize(img) ==
    [c |-> 1, h |-> img.h, w |-> img.w,
     px |-> [p \in Grid(img.h, img.w) |-> Num(img.px[<<p[2], p[1]>>], 255)]]

NoTensor == [c |-> 0, h |-> 0, w |-> 0, px |-> [p \in {} |-> 0]]

\* the values of an augment call when augment is not called
Skipped(image, mask, py, tg) ==
    [status |-> "returned", jittered |-> image,
     draws |-> 0, p |-> NoParams, pm |-> NoParams,
     croppedImage |-> image, croppedMask |-> mask,
     u |-> 0, flipped |-> FALSE, image |-> image, mask |-> mask,
     py |-> py, tg |-> tg]

TransformResult(aug, rimage, rmask, a) ==
    [aug |-> aug,
     resizedMask |-> rmask,
     inImage |-> to_pil_image(rimage), inMask |-> to_pil_image(rmask),
     a |-> a,
     outImage |-> IF a.status = "returned"
                  THEN ToTensorNormalize(a.image) ELSE NoTensor,
     outMask |-> IF a.status = "returned" THEN np_array(a.mask) ELSE NoArray]

\* _transform that mirrors the mask when no augmentation is configured
_transform_flipping(aug, image_resize, image, mask, py, tg) ==
    LET rimage == _resize_image(image, image_resize, "wrap")
        rmask == _resize_mask(mask, image_resize, "wrap")
        pimage == to_pil_image(rimage)
        pmask == to_pil_image(rmask)
        a == IF aug.present THEN augment(aug, pimage, pmask, py, tg)
             ELSE Skipped(pimage, hflip(pmask), py, tg)
    IN  TransformResult(aug, rimage, rmask, a)

\* DeepFashion2Dataset._transform(image, mask).  Decoded files are 8-bit,
\* so astype('uint8') changes no value.
_transform(aug, image_resize, image, mask, py, tg) ==
    LET rimage == _resize_image(image, image_resize, "wrap")
        rmask == _resize_mask(mask, image_resize, "wrap")
        pimage == to_pil_image(rimage)
        pmask == to_pil_image(rmask)
        a == IF aug.present THEN augment(aug, pimage, pmask, py, tg)
             ELSE Skipped(pimage, pmask, py, tg)
    IN  TransformResult(aug, rimage, rmask, a)

NoCall ==
    [kind |-> "none", idx |-> 0, py0 |-> 0, tg0 |-> 0, flipped |-> FALSE,
     prev |-> "none",
     t |-> TransformResult(NoAugmentation, NoArray, NoArray,
                           Skipped(NoImage, NoImage, 0, 0))]

\* what a call leaves behind for the next one to see
Outcome(call) ==
    IF call.kind = "none" THEN "none"
    ELSE IF call.flipped THEN "flipped" ELSE "plain"

Augmentations ==
    {NoAugmentation} \cup
    { DataAugmentation(size, chance) : size \in 1 .. MaxCrop,
                                       chance \in Chances }

DataIdle ==
    /\ pc = "new"
    /\ ds = NoDataset
    /\ io = <<>>
    /\ pyRandom = 0
    /\ torchRng = 0
    /\ last = NoCall
    /\ ref = NoCall

\* data = DeepFashion2Dataset(path, image_resize, subset, data_augmentation)
Construct ==
    /\ pc = "new"
    /\ \E image_resize \in 1 .. MaxSize, subset \in SubsetTags,
          aug \in Augmentations, manifest_present \in BOOLEAN :
         LET r == init(image_resize, subset, aug, manifest_present)
         IN  /\ pc' = r.pc
             /\ io' = io \o r.io
             /\ ds' = r.ds
    /\ UNCHANGED <<rz, met, pyRandom, torchRng, last, ref>>

\* data[idx]: __getitem__ reads the pair and runs _transform
GetItem ==
    /\ pc = "ready"
    /\ ds.fetched < MaxFetches
    /\ \E idx \in 1 .. Len(ds.pairs) :
         LET pair == ds.pairs[idx]
             t == _transform(ds.aug, ds.image_resize,
                             imread(pair.image_path), imread(pair.mask_path),
                             pyRandom, torchRng)
         IN  /\ io' = io \o <<Op("imread", pair.image_path),
                              Op("imread", pair.mask_path)>>
             /\ last' = [kind |-> "getitem", idx |-> idx,
                         py0 |-> pyRandom, tg0 |-> torchRng,
                         flipped |-> t.a.flipped, prev |-> Outcome(last),
                         t |-> t]
             /\ pyRandom' = t.a.py
             /\ torchRng' = t.a.tg
    /\ ds' = [ds EXCEPT !.fetched = @ + 1]
    /\ UNCHANGED <<rz, met, pc, ref>>

\* images, masks and configurations of direct calls of augment
AugImages == { to_pil_image(imread(f)) : f \in {"a.jpg", "d.jpg"} }

AugMasks == { to_pil_image(imread(f)) : f \in {"a.png", "d.png"} }

AugConfigs == { DataAugmentation(size, 50) : size \in MaxCrop - 1 .. MaxCrop }

\* augmentation.augment(image, mask) called on a DataAugmentation object
AugmentCall ==
    /\ \E cfg \in AugConfigs, image \in AugImages, mask \in AugMasks :
         LET a == augment(cfg, image, mask, pyRandom, torchRng)
         IN  /\ last' = [kind |-> "augment", idx |-> 0,
                         py0 |-> pyRandom, tg0 |-> torchRng,
                         flipped |-> a.flipped, prev |-> Outcome(last),
                         t |-> [aug |-> cfg, resizedMask |-> NoArray,
                                inImage |-> image, inMask |-> mask, a |-> a,
                                outImage |-> NoTensor, outMask |-> NoArray]]
             /\ pyRandom' = a.py
             /\ torchRng' = a.tg
    /\ UNCHANGED <<rz, met, pc, ds, io, ref>>

\* keep the last call for comparison with later ones
Remember ==
    /\ last.kind = "augment"
    /\ ref # last
    /\ ref' = last
    /\ UNCHANGED <<rz, met, pc, ds, io, pyRandom, torchRng, last>>

Init ==
    /\ rz = ResizeIdle
    /\ met = MetricIdle
    /\ pc = "new"
    /\ ds = NoDataset
    /\ io = <<>>
    /\ pyRandom \in 0 .. PyMod - 1
    /\ torchRng \in 0 .. TorchMod - 1
    /\ last = NoCall
    /\ ref = NoCall

Next == Construct \/ GetItem

Spec == Init /\ [][Next]_vars

NextAugment == AugmentCall \/ Remember

SpecAugment == Init /\ [][NextAugment]_vars

InitResize == ResizeInit /\ met = MetricIdle /\ DataIdle

NextResize == ResizeCall

SpecResize == InitResize /\ [][NextResize]_vars

InitIoU == MetricInit /\ rz = ResizeIdle /\ DataIdle

NextIoU == IouCall

SpecIoU == InitIoU /\ [][NextIoU]_vars

(***************************************************************************)
(* Properties                                                              *)
(***************************************************************************)
EightBit(a) == Values(a) \subseteq 0 .. 255

\* C1 as stated: for every mask and target size, the values of
\* _resize_mask(m, s) are a subset of the values of m.
C1_LabelPreservationAnyMask ==
    rz.done => Values(rz.out) \subseteq Values(rz.mask)

\* C1 (amended): for every mask whose values all lie in 0..255 and every
\* target size, the values of _resize_mask(m, s) are a subset of the values
\* of m, and the output is s x s.
C1_LabelPreservation ==
    (rz.done /\ EightBit(rz.mask)) =>
        /\ Values(rz.out) \subseteq Values(rz.mask)
        /\ rz.out.h = rz.size /\ rz.out.w = rz.size

\* an 8-bit mask with two labels has been enlarged
C1_Witness ==
    /\ rz.done
    /\ EightBit(rz.mask)
    /\ Cardinality(Values(rz.mask)) >= 2
    /\ rz.size > rz.mask.h
    /\ Cardinality(Values(rz.out)) >= 2

Augmented == last.kind = "getitem" /\ ds.aug.present

Returned == last.t.a.status = "returned"

Inside(p, img) ==
    /\ 0 <= p.top /\ p.top + p.height <= img.h
    /\ 0 <= p.left /\ p.left + p.width <= img.w

SubImage(out, p, img) ==
    /\ out.w = p.width /\ out.h = p.height
    /\ \A q \in PilGrid(p.width, p.height) :
         out.px[q] = img.px[<<p.left + q[1], p.top + q[2]>>]

\* C2: in a fetch with augmentation, one (offset_y, offset_x, height, width)
\* is drawn, it lies inside the image and the mask, the image and the mask
\* are cropped with the same offset and size, and every pixel of a cropped
\* output is the input pixel at offset + position.
C2_CropSynchronized ==
    (Augmented /\ Returned) =>
        LET a == last.t.a
        IN  /\ a.draws = 1
            /\ a.pm = a.p
            /\ a.p.height = ds.aug.central_crop_size
            /\ a.p.width = ds.aug.central_crop_size
            /\ Inside(a.p, a.jittered) /\ Inside(a.p, last.t.inMask)
            /\ SubImage(a.croppedImage, a.p, a.jittered)
            /\ SubImage(a.croppedMask, a.p, last.t.inMask)

\* a crop smaller than the input was taken at a non-zero offset
C2_Witness ==
    /\ Augmented /\ Returned
    /\ last.t.a.p.top > 0 /\ last.t.a.p.left > 0
    /\ last.t.a.p.height < last.t.inMask.h
    /\ Cardinality(Values(last.t.a.croppedMask)) >= 2

\* C3: in a fetch with augmentation the image and the mask are both
\* mirrored when the drawn value exceeds h_flipping_chance and both left as
\* cropped otherwise.
C3_FlipSynchronized ==
    (Augmented /\ Returned) =>
        LET a == last.t.a
            flip == a.u > ds.aug.h_flipping_chance
        IN  /\ a.u = py_random_value(last.py0)
            /\ a.flipped = flip
            /\ a.image = IF flip THEN hflip(a.croppedImage) ELSE a.croppedImage
            /\ a.mask = IF flip THEN hflip(a.croppedMask) ELSE a.croppedMask

\* a pair was mirrored and the mirroring changed both the image and the mask
C3_Witness ==
    /\ Augmented /\ Returned
    /\ last.t.a.flipped
    /\ last.t.a.mask # last.t.a.croppedMask
    /\ last.t.a.image # last.t.a.croppedImage

TrueValues == { met.y_true[p] : p \in Pixels }

\* the arg-max class of a score vector, stated without reference to argmax
IsArgmax(sc, c) ==
    /\ \A k \in DOMAIN sc : sc[k] <= sc[c]
    /\ \A k \in DOMAIN sc : sc[k] = sc[c] => c <= k

\* C4: when the ground truth holds only the value 0, iou returns
\* not-a-number as a value and raises nothing.
C4_BackgroundOnlyIsNaN ==
    (met.called /\ TrueValues = {0}) => met.res.value = NaN

\* a background-only ground truth was scored against foreground predictions
C4_Witness ==
    /\ met.called
    /\ TrueValues = {0}
    /\ \E p \in Pixels : ~IsArgmax(met.y_pred[p], 0)

\* C5: when the arg-max of the scores equals the ground truth at every
\* pixel and the classes 0, 1 and 2 all occur in it, iou returns 1.
C5_PerfectPredictionIsOne ==
    (/\ met.called
     /\ \A p \in Pixels : IsArgmax(met.y_pred[p], met.y_true[p])
     /\ {0, 1, 2} \subseteq TrueValues)
    => (met.res.value.kind = "num" /\ met.res.value.n = met.res.value.d)

\* a perfect prediction of a ground truth holding 0, 1 and 2 was scored
C5_Witness ==
    /\ met.called
    /\ \A p \in Pixels : IsArgmax(met.y_pred[p], met.y_true[p])
    /\ {0, 1, 2} \subseteq TrueValues
    /\ Len(met.res.scored) = 2

\* C6: a fetch without augmentation returns as mask the resized input mask,
\* pixel for pixel.
C6_NoAugmentationIdentity ==
    (last.kind = "getitem" /\ ~ds.aug.present) =>
        /\ Returned
        /\ last.t.outMask = last.t.resizedMask
        /\ last.t.outMask =
             _resize_mask(imread(ds.pairs[last.idx].mask_path),
                          ds.image_resize, "wrap")

\* a mask that mirroring and transposing would change was fetched without
\* augmentation, resized from another size
C6_Witness ==
    /\ last.kind = "getitem" /\ ~ds.aug.present
    /\ np_array(hflip(last.t.inMask)) # last.t.outMask
    /\ np_array_transposed(last.t.inMask) # last.t.outMask
    /\ imread(ds.pairs[last.idx].mask_path).h # ds.image_resize

\* C7: constructing the dataset with a subset outside train, validation,
\* test ends in ValueError, and no file has been opened or looked at.
C7_UnknownSubsetFailsFast ==
    /\ (pc # "new" /\ ds.subset \notin valid_subsets) => pc = "ValueError"
    /\ pc = "ValueError" => (ds.subset \notin valid_subsets /\ io = <<>>)

\* a construction with the subset "val" has failed
C7_Witness == pc = "ValueError" /\ ds.subset = "val"

SameSize(a, b) == a.w = b.w /\ a.h = b.h

\* C8: augment applied to an image and a mask of different dimensions
\* raises; it does not return a pair.
C8_MismatchFailsLoudly ==
    (last.kind = "augment" /\ ~SameSize(last.t.inImage, last.t.inMask))
        => last.t.a.status # "returned"

SameCall(x, y) ==
    /\ x.t.aug = y.t.aug
    /\ x.t.inImage = y.t.inImage /\ x.t.inMask = y.t.inMask
    /\ x.py0 = y.py0 /\ x.tg0 = y.tg0

C10_ScoredClassesHaveUnion ==
    met.called =>
        /\ { met.res.scored[k] : k \in DOMAIN met.res.scored }
             = TrueValues \ {0}
        /\ \A k \in DOMAIN met.res.scored :
             LET c == met.res.scored[k]
             IN  /\ Cardinality({ p \in Pixels :
                       IsArgmax(met.y_pred[p], c) \/ met.y_true[p] = c }) >= 1
                 /\ met.res.union[k] >= 1
                 /\ met.res.per[k].kind = "num"
                 /\ met.res.per[k].d = met.res.union[k]

\* a class was predicted that the ground truth lacks, and a class of the
\* ground truth was scored 0 because no prediction overlaps it
C10_Witness ==
    /\ met.called
    /\ \E p \in Pixels, c \in Classes \ {0} :
         IsArgmax(met.y_pred[p], c) /\ c \notin TrueValues
    /\ \E k \in DOMAIN met.res.scored : met.res.inter[k] = 0

====
